---- MODULE Spec2Model ----
(***************************************************************************)
(* hidden-polls: the poll data-access layer (pollDAL) of main.go, run by   *)
(* concurrent HTTP handlers (app.Results, app.Answer) against one shared   *)
(* PostgreSQL store with the tables polls, choices and answers.            *)
(*                                                                         *)
(* Every database statement (db.Query, db.Exec) is one atomic step of the  *)
(* store; the Go code around a statement is local to its goroutine and is  *)
(* part of the step that runs the statement.  A statement either fails as  *)
(* a whole (db.Query / db.Exec returns an error and changes nothing) or    *)
(* delivers its full row set.                                              *)
(***************************************************************************)
EXTENDS Integers, Sequences, FiniteSets, Bags, TLC

VARIABLES
    polls,      \* table polls (schema.sql: id, name, is_open, created_at)
    choices,    \* table choices (schema.sql: id, poll_id, answer, created_at)
    answers,    \* table answers (schema.sql: id, choice_id, created_at)
    pc,         \* where each handler goroutine is: at which database statement
    req,        \* the *http.Request r of the handler a goroutine runs
    call,       \* the handler's pollDAL call: arguments, locals, return values
    rw,         \* the http.ResponseWriter w: status written, Location header
    okAnswers   \* history: per choice, the Answer calls for it that returned nil

vars == <<polls, choices, answers, pc, req, call, rw, okAnswers>>

store == <<polls, choices, answers>>

(***************************************************************************)
(* Bounds of the model.                                                    *)
(***************************************************************************)
\* Answer calls that return nil for a choice of the store, over a whole run.
MaxAnswers == 3

\* The goroutines net/http serves requests on.
Workers == {"w1", "w2"}

(***************************************************************************)
(* Errors.  A Go error is nil, the package's notFound, or an error of the  *)
(* database driver.                                                        *)
(***************************************************************************)
nil == "nil"
notFound == "not found"
dbError == "pq: error"

\* What db.Query / db.Exec may return as its error.
DbOutcomes == {nil, dbError}

(***************************************************************************)
(* float64 values in [0, 1] and their exact sums: fixed-point numbers held *)
(* as a sequence of limbs, most significant first.  Limb 1 is the integer  *)
(* part, limbs 2..FxLen hold FracBits fraction bits, LimbBits to a limb.   *)
(* Fraction bit k has weight 2^(-k).  A float64 is a number whose set bits *)
(* span at most MantBits positions.                                        *)
(***************************************************************************)
MantBits == 53
LimbBits == 16
FracLimbs == 4
FracBits == LimbBits * FracLimbs
FxLen == FracLimbs + 1

Pow2(n) == <<1, 2, 4, 8, 16, 32, 64, 128, 256, 512, 1024, 2048, 4096, 8192,
             16384, 32768, 65536>>[n + 1]
Base == Pow2(LimbBits)

\* The exact value of the integer n (0 <= n < Base).
FxInt(n) == [i \in 1..FxLen |-> IF i = 1 THEN n ELSE 0]
FxZero == FxInt(0)
FxOne == FxInt(1)

\* The limb that holds fraction bit k, and the weight of bit k inside its limb.
LimbOf(k) == 1 + ((k + LimbBits - 1) \div LimbBits)
WeightOf(k) == Pow2((LimbOf(k) - 1) * LimbBits - k)

\* Fraction bit k of the number v.
FxBit(v, k) == (v[LimbOf(k)] \div WeightOf(k)) % 2

\* 2^(-k), for 1 <= k <= FracBits
FxPow(k) == [i \in 1..FxLen |-> IF i = LimbOf(k) THEN WeightOf(k) ELSE 0]

\* Limbs 1..i of a + b put before acc, the limbs after i; carry is the carry out
\* of those.
RECURSIVE FxAddFrom(_, _, _, _, _)
FxAddFrom(a, b, i, carry, acc) ==
    IF i = 0 THEN acc
    ELSE FxAddFrom(a, b, i - 1, (a[i] + b[i] + carry) \div Base,
                   <<(a[i] + b[i] + carry) % Base>> \o acc)

\* Exact sum of two numbers (the integer limb does not overflow below Base).
FxAdd(a, b) == FxAddFrom(a, b, FxLen, 0, <<>>)

\* Long division: the next n limbs of the quotient r / t (0 <= r < t) appended
\* to acc, and the remainder left after them.
RECURSIVE DivLimbs(_, _, _, _)
DivLimbs(r, t, n, acc) ==
    IF n = 0 THEN [q |-> acc, rem |-> r]
    ELSE DivLimbs((r * Base) % t, t, n - 1, Append(acc, (r * Base) \div t))

\* float64(c) / float64(t) for 0 <= c <= t, t > 0 (both exact as float64): the
\* quotient cut to MantBits significant bits, rounded to nearest, ties to even.
Float64Div(c, t) ==
    IF c = t THEN FxOne
    ELSE IF c = 0 THEN FxZero
    ELSE LET d == DivLimbs(c, t, FracLimbs, <<0>>)
             q == d.q
             p == CHOOSE k \in 1..FracBits :
                     FxBit(q, k) = 1 /\ \A j \in 1..(k - 1) : FxBit(q, j) = 0
             last == p + MantBits - 1
             trunc == [i \in 1..FxLen |->
                         IF i < LimbOf(last) THEN q[i]
                         ELSE IF i > LimbOf(last) THEN 0
                         ELSE q[i] - (q[i] % WeightOf(last))]
             guard == FxBit(q, last + 1)
             sticky == d.rem # 0 \/ \E j \in (last + 2)..FracBits : FxBit(q, j) = 1
             up == guard = 1 /\ (sticky \/ FxBit(q, last) = 1)
         IN  IF up THEN FxAdd(trunc, FxPow(last)) ELSE trunc

(***************************************************************************)
(* strconv.ParseInt(s, 10, 64).  A string is a sequence of characters.     *)
(* The form values of the model have at most two digits, so the value is   *)
(* always in the range of int64.                                           *)
(***************************************************************************)
Digits == <<"0", "1", "2", "3", "4", "5", "6", "7", "8", "9">>
IsDigit(ch) == \E i \in 1..Len(Digits) : Digits[i] = ch
DigitVal(ch) == (CHOOSE i \in 1..Len(Digits) : Digits[i] = ch) - 1

\* The value of a sequence of decimal digits.
RECURSIVE ParseUint(_)
ParseUint(s) ==
    IF s = <<>> THEN 0
    ELSE 10 * ParseUint(SubSeq(s, 1, Len(s) - 1)) + DigitVal(s[Len(s)])

errSyntax == "strconv.ParseInt: invalid syntax"

ParseInt(s) ==
    LET signed == s # <<>> /\ s[1] \in {"+", "-"}
        body == IF signed THEN Tail(s) ELSE s
    IN  IF body = <<>> \/ \E i \in 1..Len(body) : ~IsDigit(body[i])
        THEN [val |-> 0, err |-> errSyntax]
        ELSE [val |-> IF signed /\ s[1] = "-" THEN 0 - ParseUint(body)
                      ELSE ParseUint(body),
              err |-> nil]

(***************************************************************************)
(* The requests the handlers are run on: the method and the form values    *)
(* poll_id and choice_id (<<>> when the value is absent).                  *)
(***************************************************************************)
Request(method, pollForm, choiceForm) ==
    [Method |-> method, poll_id |-> pollForm, choice_id |-> choiceForm]

\* GET /results for polls 1 and 2, for poll 3 (no such poll) and without
\* poll_id; POST /results.
ResultsRequests ==
    {Request("GET", f, <<>>) : f \in {<<"1">>, <<"2">>, <<"3">>, <<>>}}
    \cup {Request("POST", <<"1">>, <<>>)}

\* POST /answer for each choice of polls 1 and 2 (one with a signed id), for a
\* choice of another poll, for a poll that does not exist, for a choice that
\* does not exist; votes whose choice_id or poll_id is absent or does not parse;
\* GET /answer.
AnswerRequests ==
    {Request("POST", <<"1">>, f) :
        f \in {<<"1", "0">>, <<"+", "1", "1">>, <<"9", "9">>, <<"1", "x">>, <<>>}}
    \cup {Request("POST", <<"2">>, <<"2", "0">>),
          Request("POST", <<"2">>, <<"1", "0">>),
          Request("POST", <<"3">>, <<"1", "1">>),
          Request("POST", <<"-">>, <<"1", "0">>),
          Request("GET", <<"1">>, <<"1", "x">>)}

NoRequest == Request("", <<>>, <<>>)

\* app.getPollID
getPollID(r) == ParseInt(r.poll_id)

(***************************************************************************)
(* The store.  polls, choices: sets of rows, with the columns the core     *)
(* compares; answers: the bag of its rows without the columns id (serial)  *)
(* and created_at, so that two votes for one choice are two copies of a    *)
(* row.  The core only reads polls and choices.  The queries and the seed  *)
(* statements of the README name the first table polls.                    *)
(***************************************************************************)
SeedPolls == {[ID |-> 1], [ID |-> 2]}
SeedChoices ==
    {[ID |-> 10, PollID |-> 1], [ID |-> 11, PollID |-> 1], [ID |-> 20, PollID |-> 2]}

\* Number of answers rows whose choice_id is id.
AnswersFor(id) == CopiesIn([choice_id |-> id], answers)

\* GetByID without its final return of notFound: a lookup that finds no row
\* returns the zero poll and no error.
GetByID_NoNotFound(pollId, e) ==
    IF e # nil THEN [p |-> <<>>, err |-> e]
    ELSE LET rows == {p \in polls : p.ID = pollId}
         IN  [p |-> <<IF rows # {} THEN CHOOSE p \in rows : TRUE ELSE [ID |-> 0]>>,
              err |-> nil]

(***************************************************************************)
(* pollDAL.GetByID: e is the error of db.Query.                            *)
(***************************************************************************)
GetByID(pollId, e) ==
    IF e # nil THEN [p |-> <<>>, err |-> e]
    ELSE LET rows == {p \in polls : p.ID = pollId}
         IN  IF rows # {} THEN [p |-> <<CHOOSE p \in rows : TRUE>>, err |-> nil]
             ELSE [p |-> <<>>, err |-> notFound]

(***************************************************************************)
(* pollDAL.GetResults: the tally query.                                    *)
(***************************************************************************)
\* choices c LEFT OUTER JOIN answers a ON a.choice_id = c.id WHERE c.poll_id = $1:
\* a pair <<c, i>> for the i-th answers row of choice c, <<c, 0>> (a is NULL) for
\* a choice without answers.
JoinRows(pollId) ==
    UNION {IF AnswersFor(c.ID) = 0 THEN {<<c, 0>>}
           ELSE {<<c, i>> : i \in 1..AnswersFor(c.ID)}
           : c \in {x \in choices : x.PollID = pollId}}

\* a.choice_id of a joined row: 0 stands for NULL.
JoinedChoiceId(row) == IF row[2] = 0 THEN 0 ELSE row[1].ID

\* count(*) over a group: every joined row, also the one whose a is NULL.
CountChoiceId_CountStar(group) == Cardinality(group)

\* count(a.choice_id) over a group: the rows whose a.choice_id is not NULL.
CountChoiceId(group) == Cardinality({row \in group : JoinedChoiceId(row) # 0})

\* GROUP BY c.id, c.poll_id, c.answer, c.created_at, a.choice_id, with the
\* selected columns and count(a.choice_id).
TallyGroups(pollId) ==
    LET rows == JoinRows(pollId)
        keys == {<<row[1], JoinedChoiceId(row)>> : row \in rows}
    IN  {[ID |-> k[1].ID, PollID |-> k[1].PollID,
          Count |-> CountChoiceId({row \in rows :
                       <<row[1], JoinedChoiceId(row)>> = k})] : k \in keys}

\* All the orders in which a set of rows may be delivered.
Orders(S) ==
    {f \in [1..Cardinality(S) -> S] : \A i, j \in DOMAIN f : i # j => f[i] # f[j]}

\* ORDER BY count(a.choice_id) ASC.
OrderByCountDesc_Asc(rows) ==
    \A i, j \in DOMAIN rows : i < j => rows[i].Count <= rows[j].Count

\* ORDER BY count(a.choice_id) DESC: the query names no other sort key, so rows
\* of equal count come in whatever order the executor produces.
OrderByCountDesc(rows) ==
    \A i, j \in DOMAIN rows : i < j => rows[i].Count >= rows[j].Count

\* The row sequences the tally query may return.
TallyQuery(pollId) == {rows \in Orders(TallyGroups(pollId)) : OrderByCountDesc(rows)}

RECURSIVE SumCount(_)
SumCount(rows) ==
    IF rows = <<>> THEN 0 ELSE rows[1].Count + SumCount(Tail(rows))

\* The quotient taken in int64 and then converted: float64(s.Count / totalVotes).
Percentage_IntegerDivision(count, totalVotes) ==
    IF totalVotes > 0 THEN FxInt(count \div totalVotes) ELSE FxZero

\* Summary.Percentage as GetResults leaves it: the zero value unless totalVotes > 0.
Percentage(count, totalVotes) ==
    IF totalVotes > 0 THEN Float64Div(count, totalVotes) ELSE FxZero

\* The result GetResults assembles from the poll and the rows of the tally query.
BuildResult(p, rows) ==
    LET totalVotes == SumCount(rows)
    IN  [Poll |-> p,
         Summaries |-> [i \in 1..Len(rows) |->
                          [ID |-> rows[i].ID, PollID |-> rows[i].PollID,
                           Count |-> rows[i].Count,
                           Percentage |-> Percentage(rows[i].Count, totalVotes)]],
         Count |-> totalVotes]

\* float64 divisions GetResults performs for the rows.
Divisions(rows) == IF SumCount(rows) > 0 THEN Len(rows) ELSE 0

(***************************************************************************)
(* pollDAL.Answer.                                                         *)
(***************************************************************************)
\* SELECT id, NOW() FROM choices WHERE id = $2: the choice of any poll.
InsertSelect_AnyPoll(pollId, choiceId) == {c \in choices : c.ID = choiceId}

\* SELECT id, NOW() FROM choices WHERE poll_id = $1 AND id = $2
InsertSelect(pollId, choiceId) ==
    {c \in choices : c.PollID = pollId /\ c.ID = choiceId}

\* What Answer returns: e is the error of db.Exec, rows the RowsAffected of its
\* result (lib/pq's RowsAffected returns no error).
AnswerReturn(e, rows) ==
    IF e # nil THEN nil
    ELSE IF rows = 0 THEN notFound
    ELSE nil

(***************************************************************************)
(* Handlers.  The status written for the error a pollDAL call returned.    *)
(***************************************************************************)
StatusFor(err, okStatus) ==
    IF err = notFound THEN 404
    ELSE IF err # nil THEN 500
    ELSE okStatus

NoCall ==
    [handler |-> "", pollId |-> 0, choiceId |-> 0, queries |-> 0, dbErr |-> nil, rows |-> 0,
     divisions |-> 0, seen |-> <<>>, p |-> <<>>, err |-> nil, res |-> <<>>]

NoResponse == [status |-> 0, Location |-> 0]

Respond(code) == [status |-> code, Location |-> 0]

Init ==
    /\ polls = SeedPolls
    /\ choices = SeedChoices
    /\ answers = EmptyBag
    /\ pc = [w \in Workers |-> "idle"]
    /\ req = [w \in Workers |-> NoRequest]
    /\ call = [w \in Workers |-> NoCall]
    /\ rw = [w \in Workers |-> NoResponse]
    /\ okAnswers = [id \in {c.ID : c \in SeedChoices} |-> 0]

\* Answer calls that have been made and have not returned.
InFlight == Cardinality({w \in Workers : pc[w] = "Answer.Exec"})

RECURSIVE SumOver(_, _)
SumOver(f, S) ==
    IF S = {} THEN 0
    ELSE LET x == CHOOSE x \in S : TRUE IN f[x] + SumOver(f, S \ {x})

\* Answer calls that had returned nil, per choice of the poll, when a GetResults
\* call for the poll is made.
Seen(pollId) ==
    [id \in {c.ID : c \in {x \in choices : x.PollID = pollId}} |-> okAnswers[id]]

\* app.Results up to its call of GetResults: net/http runs it on a request r.
appResults(w, r) ==
    /\ pc[w] = "idle"
    /\ req' = [req EXCEPT ![w] = r]
    /\ LET id == getPollID(r)
           in == [NoCall EXCEPT !.handler = "Results"]
       IN  IF id.err # nil
           THEN /\ rw' = [rw EXCEPT ![w] = Respond(400)]
                /\ call' = [call EXCEPT ![w] = in]
                /\ pc' = [pc EXCEPT ![w] = "done"]
           ELSE IF r.Method # "GET"
           THEN /\ rw' = [rw EXCEPT ![w] = Respond(405)]
                /\ call' = [call EXCEPT ![w] = in]
                /\ pc' = [pc EXCEPT ![w] = "done"]
           ELSE /\ rw' = [rw EXCEPT ![w] = NoResponse]
                /\ call' = [call EXCEPT ![w] =
                              [in EXCEPT !.pollId = id.val, !.seen = Seen(id.val)]]
                /\ pc' = [pc EXCEPT ![w] = "GetResults.GetByID"]
    /\ UNCHANGED <<store, okAnswers>>

\* GetResults: d.GetByID(pollId), and the rest of app.Results when it fails.
GetResultsGetByID(w) ==
    /\ pc[w] = "GetResults.GetByID"
    /\ \E e \in DbOutcomes :
          LET got == GetByID(call[w].pollId, e)
          IN  IF got.err # nil
              THEN /\ call' = [call EXCEPT ![w].queries = 1, ![w].dbErr = e,
                                           ![w].err = got.err]
                   /\ rw' = [rw EXCEPT ![w] = Respond(StatusFor(got.err, 200))]
                   /\ pc' = [pc EXCEPT ![w] = "done"]
              ELSE /\ call' = [call EXCEPT ![w].queries = 1, ![w].dbErr = e,
                                           ![w].p = got.p]
                   /\ rw' = rw
                   /\ pc' = [pc EXCEPT ![w] = "GetResults.Query"]
    /\ UNCHANGED <<store, req, okAnswers>>

\* GetResults: the tally query, the loop over its rows, the percentages; and the
\* rest of app.Results (the templates of main.go execute without error on a result).
GetResultsQuery(w) ==
    /\ pc[w] = "GetResults.Query"
    /\ \E e \in DbOutcomes :
          IF e # nil
          THEN /\ call' = [call EXCEPT ![w].queries = 2, ![w].dbErr = e, ![w].err = e]
               /\ rw' = [rw EXCEPT ![w] = Respond(StatusFor(e, 200))]
          ELSE \E rows \in TallyQuery(call[w].pollId) :
               /\ call' = [call EXCEPT ![w].queries = 2, ![w].dbErr = e,
                                       ![w].err = nil,
                                       ![w].divisions = Divisions(rows),
                                       ![w].res = <<BuildResult(call[w].p[1], rows)>>]
               /\ rw' = [rw EXCEPT ![w] = Respond(StatusFor(nil, 200))]
    /\ pc' = [pc EXCEPT ![w] = "done"]
    /\ UNCHANGED <<store, req, okAnswers>>

\* app.Answer up to its call of pollDAL.Answer.
appAnswer(w, r) ==
    /\ pc[w] = "idle"
    /\ req' = [req EXCEPT ![w] = r]
    /\ LET id == getPollID(r)
           ch == ParseInt(r.choice_id)
           in == [NoCall EXCEPT !.handler = "Answer"]
       IN  IF id.err # nil
           THEN /\ rw' = [rw EXCEPT ![w] = Respond(400)]
                /\ call' = [call EXCEPT ![w] = in]
                /\ pc' = [pc EXCEPT ![w] = "done"]
           ELSE IF r.Method # "POST"
           THEN /\ rw' = [rw EXCEPT ![w] = Respond(405)]
                /\ call' = [call EXCEPT ![w] = in]
                /\ pc' = [pc EXCEPT ![w] = "done"]
           ELSE IF ch.err # nil
           THEN /\ rw' = [rw EXCEPT ![w] = Respond(400)]
                /\ call' = [call EXCEPT ![w] = in]
                /\ pc' = [pc EXCEPT ![w] = "done"]
           ELSE /\ InFlight + SumOver(okAnswers, DOMAIN okAnswers) < MaxAnswers
                /\ rw' = [rw EXCEPT ![w] = NoResponse]
                /\ call' = [call EXCEPT ![w] =
                              [in EXCEPT !.pollId = id.val, !.choiceId = ch.val]]
                /\ pc' = [pc EXCEPT ![w] = "Answer.Exec"]
    /\ UNCHANGED <<store, okAnswers>>

\* pollDAL.Answer: the INSERT ... SELECT, one statement of the store, and the rest
\* of app.Answer.  A failed statement inserts nothing.
AnswerExec(w) ==
    /\ pc[w] = "Answer.Exec"
    /\ \E e \in DbOutcomes :
          LET sel == IF e = nil THEN InsertSelect(call[w].pollId, call[w].choiceId)
                     ELSE {}
              rows == Cardinality(sel)
              err == AnswerReturn(e, rows)
          IN  /\ answers' = answers (+) SetToBag({[choice_id |-> c.ID] : c \in sel})
              /\ call' = [call EXCEPT ![w].queries = 1, ![w].dbErr = e,
                                      ![w].rows = rows, ![w].err = err]
              /\ rw' = [rw EXCEPT ![w] =
                          IF err = nil
                          THEN [status |-> 302, Location |-> call[w].pollId]
                          ELSE Respond(StatusFor(err, 302))]
              /\ okAnswers' = IF err = nil /\ call[w].choiceId \in DOMAIN okAnswers
                                 /\ (\E c \in choices : c.ID = call[w].choiceId
                                                         /\ c.PollID = call[w].pollId)
                              THEN [okAnswers EXCEPT ![call[w].choiceId] = @ + 1]
                              ELSE okAnswers
    /\ pc' = [pc EXCEPT ![w] = "done"]
    /\ UNCHANGED <<polls, choices, req>>

\* The handler has returned: net/http ends the response, and the goroutine is
\* free for the next request.
Served(w) ==
    /\ pc[w] = "done"
    /\ pc' = [pc EXCEPT ![w] = "idle"]
    /\ req' = [req EXCEPT ![w] = NoRequest]
    /\ call' = [call EXCEPT ![w] = NoCall]
    /\ rw' = [rw EXCEPT ![w] = NoResponse]
    /\ UNCHANGED <<store, okAnswers>>

Next ==
    \E w \in Workers :
       \/ \E r \in ResultsRequests : appResults(w, r)
       \/ GetResultsGetByID(w)
       \/ GetResultsQuery(w)
       \/ \E r \in AnswerRequests : appAnswer(w, r)
       \/ AnswerExec(w)
       \/ Served(w)

Spec == Init /\ [][Next]_vars

(***************************************************************************)
(* Properties.                                                             *)
(***************************************************************************)
\* Worker w's handler h has returned and its response is still in the state.
Done(w, h) == pc[w] = "done" /\ call[w].handler = h

\* Worker w's app.Answer has returned from its call of pollDAL.Answer.
AnswerReturned(w) == Done(w, "Answer") /\ call[w].queries = 1

\* Worker w's app.Results has returned from its call of GetResults.
ResultsReturned(w) == Done(w, "Results") /\ call[w].queries >= 1

\* Worker w's GetResults has returned a result.
HasResult(w) == ResultsReturned(w) /\ call[w].res # <<>>

\* choiceId is the id of a choice whose poll_id is pollId.
ChoiceOfPoll(pollId, choiceId) ==
    \E c \in choices : c.ID = choiceId /\ c.PollID = pollId

\* Worker w takes the step from -> to.
Steps(w, from, to) == pc[w] = from /\ pc'[w] = to

\* a <= b, comparing from the most significant limb.
FxLeq(a, b) ==
    \/ a = b
    \/ \E i \in 1..FxLen : a[i] < b[i] /\ \A j \in 1..(i - 1) : a[j] = b[j]

\* The exact value of n * a.
RECURSIVE FxTimes(_, _)
FxTimes(n, a) == IF n = 0 THEN FxZero ELSE FxAdd(a, FxTimes(n - 1, a))

RECURSIVE FxSum(_)
FxSum(ps) == IF ps = <<>> THEN FxZero ELSE FxAdd(ps[1], FxSum(Tail(ps)))

\* The percentages of a result, in the order of its summaries.
Percentages(r) == [i \in 1..Len(r.Summaries) |-> r.Summaries[i].Percentage]

\* |a - b| <= 2^(-k)
FxWithin(a, b, k) ==
    FxLeq(a, FxAdd(b, FxPow(k))) /\ FxLeq(b, FxAdd(a, FxPow(k)))

\* C1: Answer(pollID, choiceID) returns no error if and only if a choice with id
\* choiceID exists and its poll_id is pollID, and returns notFound otherwise.
C1_AnswerSucceedsIffChoiceOfPoll ==
    \A w \in Workers :
       AnswerReturned(w) =>
          /\ call[w].err = nil <=> ChoiceOfPoll(call[w].pollId, call[w].choiceId)
          /\ ~ChoiceOfPoll(call[w].pollId, call[w].choiceId)
                => call[w].err = notFound

\* C2: when the storage call made by Answer fails, Answer returns an error that is
\* neither nil (success) nor notFound.
C2_StorageFailureIsSurfaced ==
    \A w \in Workers :
       AnswerReturned(w) /\ call[w].dbErr # nil
          => call[w].err \notin {nil, notFound}

\* C3: in the result GetResults returns, the summaries' counts sum to Result.Count,
\* and that sum is the number of answers rows that reference a choice of the poll in
\* the store the tally query read, also when Answer calls insert during the call.
C3_CountsSumToRecordedAnswers ==
    [][\A w \in Workers :
          Steps(w, "GetResults.Query", "done") /\ call'[w].res # <<>> =>
             LET r == call'[w].res[1]
             IN  /\ SumCount(r.Summaries) = r.Count
                 /\ r.Count =
                       BagCardinality([row \in {x \in BagToSet(answers) :
                             ChoiceOfPoll(call[w].pollId, x.choice_id)}
                          |-> answers[row]])]_vars

\* C3 witness: a result that counts an answer inserted while its GetResults call ran.
C3_Witness ==
    \E w \in Workers :
       /\ HasResult(w)
       /\ call[w].res[1].Count > SumOver(call[w].seen, DOMAIN call[w].seen)
       /\ Len(call[w].res[1].Summaries) = 2

\* C4 (as claimed): with Result.Count = 0 every Percentage is 0 and no division is
\* performed; with Result.Count > 0 every Percentage equals Count / Result.Count,
\* lies in [0, 1], and the percentages sum to 1.
C4_PercentagesSumToOne ==
    \A w \in Workers :
       HasResult(w) =>
          LET r == call[w].res[1]
          IN  /\ r.Count = 0 =>
                   /\ \A i \in DOMAIN r.Summaries : r.Summaries[i].Percentage = FxZero
                   /\ call[w].divisions = 0
              /\ r.Count > 0 =>
                   /\ \A i \in DOMAIN r.Summaries :
                         /\ FxTimes(r.Count, r.Summaries[i].Percentage)
                               = FxInt(r.Summaries[i].Count)
                         /\ FxLeq(r.Summaries[i].Percentage, FxOne)
                   /\ FxSum(Percentages(r)) = FxOne

\* C4 (amended): with Result.Count = 0 every Percentage is 0 and no division is
\* performed; with Result.Count > 0 every Percentage is Count / Result.Count rounded
\* to float64 (within 2^-54 of the quotient), lies in [0, 1], and the percentages
\* sum to 1 within 2^-53.
C4_PercentagesSumToOneRounded ==
    \A w \in Workers :
       HasResult(w) =>
          LET r == call[w].res[1]
              halfUlps == FxTimes(r.Count, FxPow(MantBits + 1))
          IN  /\ r.Count = 0 =>
                   /\ \A i \in DOMAIN r.Summaries : r.Summaries[i].Percentage = FxZero
                   /\ call[w].divisions = 0
              /\ r.Count > 0 =>
                   /\ \A i \in DOMAIN r.Summaries :
                         LET scaled == FxTimes(r.Count, r.Summaries[i].Percentage)
                             count == FxInt(r.Summaries[i].Count)
                         IN  /\ FxLeq(scaled, FxAdd(count, halfUlps))
                             /\ FxLeq(count, FxAdd(scaled, halfUlps))
                             /\ FxLeq(r.Summaries[i].Percentage, FxOne)
                   /\ FxWithin(FxSum(Percentages(r)), FxOne, MantBits)

\* C4 witness: a result of three votes, two for one choice and one for the other,
\* so that both quotients are rounded.
C4_Witness ==
    \E w \in Workers :
       /\ HasResult(w)
       /\ call[w].res[1].Count = 3
       /\ \E i, j \in DOMAIN call[w].res[1].Summaries :
             /\ call[w].res[1].Summaries[i].Count = 2
             /\ call[w].res[1].Summaries[j].Count = 1
       /\ call[w].divisions = 2

\* C5: when Answer calls for two different valid choices of a poll have both
\* succeeded, in whatever interleaving, neither vote is lost: a GetResults call made
\* after they returned counts, for each choice and in Result.Count, at least the
\* votes cast by then.
C5_NoVoteLost ==
    \A w \in Workers :
       ( /\ HasResult(w)
         /\ \E a, b \in DOMAIN call[w].seen :
               a # b /\ call[w].seen[a] >= 1 /\ call[w].seen[b] >= 1 ) =>
          LET r == call[w].res[1]
          IN  /\ \A i \in DOMAIN r.Summaries :
                    r.Summaries[i].Count >= call[w].seen[r.Summaries[i].ID]
              /\ r.Count >= SumOver(call[w].seen, DOMAIN call[w].seen)

\* C6: an Answer call that fails with notFound leaves polls, choices and answers
\* unchanged, and an answers row is created only by a call whose choice belongs to
\* its poll, for that choice.
C6_NotFoundLeavesStoreUnchanged ==
    [][\A w \in Workers :
          Steps(w, "Answer.Exec", "done") =>
             /\ call'[w].err = notFound => UNCHANGED store
             /\ answers' # answers =>
                   /\ ChoiceOfPoll(call[w].pollId, call[w].choiceId)
                   /\ answers' = answers (+) SetToBag({[choice_id |-> call[w].choiceId]})
             /\ UNCHANGED <<polls, choices>>]_vars

\* C6 witness: an Answer call for a choice of another poll has failed with notFound
\* while the store holds answers.
C6_Witness ==
    \E w \in Workers :
       /\ AnswerReturned(w)
       /\ call[w].err = notFound
       /\ call[w].pollId = 2 /\ call[w].choiceId = 10
       /\ answers # EmptyBag

\* C7 (as claimed): the summaries are ordered by Count descending, and summaries of
\* equal Count by ascending choice id.
C7_OrderedWithTieBreak ==
    \A w \in Workers :
       HasResult(w) =>
          LET ss == call[w].res[1].Summaries
          IN  \A i, j \in DOMAIN ss :
                 i < j => \/ ss[i].Count > ss[j].Count
                          \/ ss[i].Count = ss[j].Count /\ ss[i].ID < ss[j].ID

\* C7 (amended): the summaries are ordered by Count descending; the order of
\* summaries of equal Count is not determined.
C7_OrderedByCountDesc ==
    \A w \in Workers :
       HasResult(w) =>
          LET ss == call[w].res[1].Summaries
          IN  \A i, j \in DOMAIN ss : i < j => ss[i].Count >= ss[j].Count

\* C7 witness: a result whose second choice by id has more votes than the first.
C7_Witness ==
    \E w \in Workers :
       /\ HasResult(w)
       /\ Len(call[w].res[1].Summaries) = 2
       /\ call[w].res[1].Summaries[1].ID = 11
       /\ call[w].res[1].Summaries[1].Count > call[w].res[1].Summaries[2].Count

\* C8: for a pollID that matches no poll, GetResults returns no result and the
\* error GetByID returned, which is notFound whenever the lookup itself ran, and it
\* does not run the tally query.
C8_GetResultsNotFound ==
    \A w \in Workers :
       ResultsReturned(w) /\ ~(\E p \in polls : p.ID = call[w].pollId) =>
          /\ call[w].res = <<>>
          /\ call[w].queries = 1
          /\ call[w].dbErr = nil => call[w].err = notFound /\ rw[w].status = 404
          /\ call[w].dbErr # nil => call[w].err = call[w].dbErr

\* C8 witness: GetResults for poll 3, which does not exist, has returned notFound.
C8_Witness ==
    \E w \in Workers :
       /\ ResultsReturned(w)
       /\ call[w].pollId = 3
       /\ call[w].err = notFound
       /\ answers # EmptyBag

\* C9: each Answer call that succeeds creates exactly one answers row, and the Count
\* GetResults reports for a choice is the number of Answer calls that succeeded for
\* that choice.
C9_CountIsSuccessfulAnswers ==
    [][\A w \in Workers :
          /\ Steps(w, "Answer.Exec", "done") /\ call'[w].err = nil
                => BagCardinality(answers') = BagCardinality(answers) + 1
          /\ Steps(w, "GetResults.Query", "done") /\ call'[w].res # <<>>
                => \A i \in DOMAIN call'[w].res[1].Summaries :
                      call'[w].res[1].Summaries[i].Count
                         = okAnswers[call'[w].res[1].Summaries[i].ID]]_vars

\* C10: the handlers answer a notFound of the core with 404, a storage failure of
\* the core operation with 500, a poll_id or (for a vote) choice_id that does not
\* parse with 400, and a vote with the 302 redirect only when it was recorded.
C10_StatusClasses ==
    \A w \in Workers :
       pc[w] = "done" =>
          /\ call[w].queries >= 1 /\ call[w].err = notFound => rw[w].status = 404
          /\ call[w].dbErr # nil => rw[w].status = 500
          /\ getPollID(req[w]).err # nil => rw[w].status = 400
          /\ ( /\ call[w].handler = "Answer"
               /\ getPollID(req[w]).err = nil
               /\ req[w].Method = "POST"
               /\ ParseInt(req[w].choice_id).err # nil ) => rw[w].status = 400
          /\ call[w].handler = "Answer" /\ rw[w].status = 302 => call[w].rows = 1

====
